---- MODULE Spec2Model ----
(***************************************************************************)
(* Model of the command dispatcher and the four command tasks of           *)
(* src/src/main.rs (join, leave, play, stop), with the shared state of      *)
(* StateRef: the trackdata map behind its RwLock, the songbird calls and    *)
(* their per-guild mutex, and the standby waiters.                          *)
(*                                                                         *)
(* A message text is a sequence of one-character strings.  The tokio        *)
(* runtime is multi-threaded, so every await and every access to shared     *)
(* state of a task is a step of its own that interleaves with the steps of  *)
(* the other tasks and of the consumer loop.                                *)
(***************************************************************************)
EXTENDS Integers, Sequences, FiniteSets, TLC

\* Number of command tasks the consumer loop may spawn in a run.
MaxTasks == 3

\* msg.guild_id of a message outside any guild (Option::None).
NoGuild == 0

\* No holder of a lock.
Free == 0

Guilds == {1, 2}

\* Text channels 1 and 2 belong to guilds 1 and 2; channel 3 is a direct
\* message channel (its messages carry no guild_id).
ChannelGuild(c) == IF c \in Guilds THEN c ELSE NoGuild

----------------------------------------------------------------------------
(* Message texts *)

TJoin == <<"j", "/", "j", "o", "i", "n">>
TPlay == <<"j", "/", "p", "l", "a", "y">>
TLeave == <<"j", "/", "l", "e", "a", "v", "e">>
TStop == <<"j", "/", "s", "t", "o", "p">>
TJoinx == <<"j", "/", "j", "o", "i", "n", "x">>
TStopArg == <<"j", "/", "s", "t", "o", "p", " ", "x">>
TNumber == <<"4", "2">>
TWord == <<"x", "1">>

Prefix == <<"j", "/">>

Digits == {"0", "1", "2", "3", "4", "5", "6", "7", "8", "9"}

\* str::starts_with
StartsWith(s, p) ==
    /\ Len(s) >= Len(p)
    /\ SubSeq(s, 1, Len(p)) = p

\* Index of the first occurrence of character ch in s, Len(s) + 1 if none.
RECURSIVE FindFrom(_, _, _)
FindFrom(s, ch, i) ==
    IF i > Len(s) THEN i
    ELSE IF s[i] = ch THEN i
    ELSE FindFrom(s, ch, i + 1)

\* content.splitn(2, ' ').next(): the text before the first space.
FirstToken(s) == SubSeq(s, 1, FindFrom(s, " ", 1) - 1)

\* content.parse::<u64>().is_ok(): an optional '+' and then one or more
\* decimal digits.  The texts of the model are shorter than 20 digits, so
\* the value always fits 64 bits.
ParseOkLenient(s) == Len(s) > 0

ParseOk(s) ==
    LET body == IF Len(s) > 0 /\ s[1] = "+" THEN Tail(s) ELSE s
    IN  /\ Len(body) > 0
        /\ \A i \in 1..Len(body) : body[i] \in Digits

\* The match of the dispatcher on the leading token.
CommandOfAnyPrefix(tok) ==
    IF StartsWith(tok, TJoin) THEN "join"
    ELSE IF StartsWith(tok, TPlay) THEN "play"
    ELSE IF StartsWith(tok, TLeave) THEN "leave"
    ELSE IF StartsWith(tok, TStop) THEN "stop"
    ELSE "none"

CommandOf(tok) ==
    IF tok = TJoin THEN "join"
    ELSE IF tok = TPlay THEN "play"
    ELSE IF tok = TLeave THEN "leave"
    ELSE IF tok = TStop THEN "stop"
    ELSE "none"

----------------------------------------------------------------------------
(* Events *)

Message(c, a, text) ==
    [type |-> "MessageCreate", channel |-> c, author |-> a, content |-> text]

\* An event that is no message creation (a voice state update, ...).
OtherEvent == [type |-> "Other", channel |-> 3, author |-> 1, content |-> <<>>]

\* The events of the model.  Author 1 writes every command and both kinds of
\* answer in channel 1; author 2 writes in channel 1; author 1 writes in
\* channel 2 (the other guild) and in the direct channel.
Events ==
    {Message(1, 1, text) :
        text \in {TJoin, TPlay, TLeave, TStop, TNumber, TWord}}
    \cup {Message(1, 2, TWord)}
    \cup {Message(2, 1, text) : text \in {TStopArg, TJoinx}}
    \cup {Message(3, 1, TJoin)}
    \cup {OtherEvent}

\* The command the consumer loop spawns for an event, "none" if it
\* discards the event.
Classify(ev) ==
    IF ev.type # "MessageCreate" THEN "none"
    ELSE IF ChannelGuild(ev.channel) = NoGuild
            \/ ~StartsWith(ev.content, Prefix) THEN "none"
    ELSE CommandOf(FirstToken(ev.content))

----------------------------------------------------------------------------
(* State *)

VARIABLES
    tasks,      \* the spawned command tasks, in spawn order
    trackdata,  \* StateRef.trackdata: the entries <<guild, handle>> of the map
    storeLock,  \* the task holding trackdata's write lock, or Free
    calls,      \* the guilds songbird holds a Call for
    callLock,   \* per guild, the task holding the Call's mutex, or Free
    playing,    \* per guild, the handles of the tracks playing on its Call
    inserts,    \* history: the tasks that inserted into trackdata, in order
    starts      \* history: the tasks that called play_source, in order

vars == <<tasks, trackdata, storeLock, calls, callLock, playing, inserts,
          starts>>

TaskIds == 1..Len(tasks)

\* A task as spawn() creates it: it owns the triggering message.
NewTask(cmd, ev) ==
    [cmd |-> cmd,
     pc |-> "start",
     channel |-> ev.channel,
     author |-> ev.author,
     guild |-> ChannelGuild(ev.channel),
     followup |-> <<>>,        \* the text standby delivered, until used
     replies |-> <<>>,         \* the replies create_message delivered
     resolved |-> "none",      \* outcome of songbird::ytdl
     ops |-> <<>>,             \* the songbird operations issued, with outcome
     result |-> "running"]     \* "ok", or the error the task returned

Init ==
    /\ tasks = <<>>
    /\ trackdata = {}
    /\ storeLock = Free
    /\ calls = {}
    /\ callLock = [g \in Guilds |-> Free]
    /\ playing = [g \in Guilds |-> {}]
    /\ inserts = <<>>
    /\ starts = <<>>

----------------------------------------------------------------------------
(* Helpers of the task steps *)

SetTask(t, rec) == tasks' = [tasks EXCEPT ![t] = rec]

\* The task returns: Ok(()) or an error propagated by `?`.
Ended(task, res) == [task EXCEPT !.pc = "end", !.result = res]

AfterSendKeepGoing(task, kind, next, delivered) ==
    IF next = "end"
    THEN Ended(IF delivered THEN [task EXCEPT !.replies = Append(@, kind)]
               ELSE task,
               IF delivered THEN "ok" ELSE "TransportError")
    ELSE IF delivered
    THEN [task EXCEPT !.replies = Append(@, kind), !.pc = next]
    ELSE [task EXCEPT !.result = "TransportError", !.pc = next]

\* http.create_message(..).exec().await? : delivered, the reply is sent and
\* the task goes on at `next`; otherwise the TransportError ends the task.
AfterSend(task, kind, next, delivered) ==
    IF ~delivered THEN Ended(task, "TransportError")
    ELSE IF next = "end"
        THEN Ended([task EXCEPT !.replies = Append(@, kind)], "ok")
        ELSE [task EXCEPT !.replies = Append(@, kind), !.pc = next]

Outcome(ok) == IF ok THEN "ok" ELSE "err"

LastOp(task) == task.ops[Len(task.ops)]

\* Standby::process: a MessageCreate resolves every wait_for_message future
\* registered for its channel whose predicate (same author) accepts it.  join
\* reads the text of the message; play hands it to the fetcher, whose verdict
\* does not depend on it in the model, so the text is kept for join only.
WakesAnyAuthor(task, ev) ==
    /\ ev.type = "MessageCreate"
    /\ task.pc = "wait"
    /\ task.channel = ev.channel

WakesBeforeRegistered(task, ev) ==
    /\ ev.type = "MessageCreate"
    /\ task.pc \in {"start", "wait"}
    /\ task.cmd \in {"join", "play"}
    /\ task.channel = ev.channel
    /\ task.author = ev.author

Wakes(task, ev) ==
    /\ ev.type = "MessageCreate"
    /\ task.pc = "wait"
    /\ task.channel = ev.channel
    /\ task.author = ev.author

StandbyProcess(ts, ev) ==
    [t \in 1..Len(ts) |->
        IF Wakes(ts[t], ev)
        THEN [ts[t] EXCEPT !.pc = "resumed",
                           !.followup = IF ts[t].cmd = "join" THEN ev.content
                                        ELSE <<>>]
        ELSE ts[t]]

\* HashMap::insert: the entry of the key is replaced.
InsertKeepBoth(store, g, h) == store \cup {<<g, h>>}

InsertKeepFirst(store, g, h) ==
    IF \E e \in store : e[1] = g THEN store ELSE store \cup {<<g, h>>}

Insert(store, g, h) == {e \in store : e[1] # g} \cup {<<g, h>>}

----------------------------------------------------------------------------
(* The consumer loop of main: one iteration *)

\* The loop as it would be if it awaited the command instead of spawning it.
DispatchAwaiting(ev) ==
    LET cmd == Classify(ev)
        woken == StandbyProcess(tasks, ev)
    IN  /\ cmd = "none" \/ Len(tasks) < MaxTasks
        /\ \A t \in TaskIds : tasks[t].pc = "end"
        /\ tasks' = IF cmd = "none" THEN woken
                    ELSE Append(woken, NewTask(cmd, ev))
        /\ UNCHANGED <<trackdata, storeLock, calls, callLock, playing,
                       inserts, starts>>

\* The loop as it would be if a message consumed as a follow-up were not
\* classified.
DispatchSkipAnswered(ev) ==
    LET woken == StandbyProcess(tasks, ev)
        cmd == IF woken # tasks THEN "none" ELSE Classify(ev)
    IN  /\ Classify(ev) = "none" \/ Len(tasks) < MaxTasks
        /\ tasks' = IF cmd = "none" THEN woken
                    ELSE Append(woken, NewTask(cmd, ev))
        /\ UNCHANGED <<trackdata, storeLock, calls, callLock, playing,
                       inserts, starts>>

Dispatch(ev) ==
    LET cmd == Classify(ev)
        woken == StandbyProcess(tasks, ev)
    IN  /\ cmd = "none" \/ Len(tasks) < MaxTasks
        /\ tasks' = IF cmd = "none" THEN woken
                    ELSE Append(woken, NewTask(cmd, ev))
        /\ UNCHANGED <<trackdata, storeLock, calls, callLock, playing,
                       inserts, starts>>

----------------------------------------------------------------------------
(* join *)

JoinPrompt(t) ==
    /\ tasks[t].cmd = "join" /\ tasks[t].pc = "start"
    /\ \E delivered \in BOOLEAN :
        SetTask(t, AfterSend(tasks[t], "prompt_join", "wait", delivered))
    /\ UNCHANGED <<trackdata, storeLock, calls, callLock, playing, inserts,
                   starts>>

\* msg.content.parse::<u64>()? and msg.guild_id.ok_or(..)?
JoinParse(t) ==
    /\ tasks[t].cmd = "join" /\ tasks[t].pc = "resumed"
    /\ LET task == [tasks[t] EXCEPT !.followup = <<>>]
       IN  SetTask(t,
             IF ~ParseOk(tasks[t].followup) THEN Ended(task, "ParseError")
             ELSE IF task.guild = NoGuild THEN Ended(task, "NoGuild")
             ELSE [task EXCEPT !.pc = "voice_join"])
    /\ UNCHANGED <<trackdata, storeLock, calls, callLock, playing, inserts,
                   starts>>

\* songbird.join(guild_id, channel_id).await: the Call of the guild is
\* created if there is none, and the connection succeeds or fails.
JoinVoice(t) ==
    /\ tasks[t].cmd = "join" /\ tasks[t].pc = "voice_join"
    /\ \E ok \in BOOLEAN :
        SetTask(t, [tasks[t] EXCEPT !.ops = Append(@, <<"join", Outcome(ok)>>),
                                    !.pc = "reply"])
    /\ calls' = calls \cup {tasks[t].guild}
    /\ UNCHANGED <<trackdata, storeLock, callLock, playing, inserts, starts>>

\* match success: Ok(()) selects "Joined", Err(e) "Failed to join".
JoinReplyKindAlwaysJoined(success) == "joined"

JoinReplyKind(success) == IF success = "ok" THEN "joined" ELSE "join_failed"

JoinReply(t) ==
    /\ tasks[t].cmd = "join" /\ tasks[t].pc = "reply"
    /\ \E delivered \in BOOLEAN :
        SetTask(t, AfterSend(tasks[t], JoinReplyKind(LastOp(tasks[t])[2]),
                             "end", delivered))
    /\ UNCHANGED <<trackdata, storeLock, calls, callLock, playing, inserts,
                   starts>>

----------------------------------------------------------------------------
(* leave *)

\* songbird.leave(guild_id).await? : without a Call the result is an error;
\* with one, the disconnect succeeds or fails.
LeaveAfterCallSwallow(task, ok) ==
    [task EXCEPT !.ops = Append(@, <<"leave", Outcome(ok)>>), !.pc = "reply"]

LeaveAfterCall(task, ok) ==
    IF ok THEN [task EXCEPT !.ops = Append(@, <<"leave", "ok">>),
                            !.pc = "reply"]
    ELSE Ended([task EXCEPT !.ops = Append(@, <<"leave", "err">>)],
               "LeaveError")

LeaveCall(t) ==
    /\ tasks[t].cmd = "leave" /\ tasks[t].pc = "start"
    /\ \E ok \in BOOLEAN :
        /\ tasks[t].guild \notin calls => ~ok
        /\ SetTask(t, LeaveAfterCall(tasks[t], ok))
    /\ UNCHANGED <<trackdata, storeLock, calls, callLock, playing, inserts,
                   starts>>

LeaveReply(t) ==
    /\ tasks[t].cmd = "leave" /\ tasks[t].pc = "reply"
    /\ \E delivered \in BOOLEAN :
        SetTask(t, AfterSend(tasks[t], "left", "end", delivered))
    /\ UNCHANGED <<trackdata, storeLock, calls, callLock, playing, inserts,
                   starts>>

----------------------------------------------------------------------------
(* play *)

PlayPrompt(t) ==
    /\ tasks[t].cmd = "play" /\ tasks[t].pc = "start"
    /\ \E delivered \in BOOLEAN :
        SetTask(t, AfterSend(tasks[t], "prompt_play", "wait", delivered))
    /\ UNCHANGED <<trackdata, storeLock, calls, callLock, playing, inserts,
                   starts>>

\* songbird::ytdl(msg.content.trim()).await: the fetcher accepts or rejects
\* the text; the match selects the reply.
PlayResolve(t) ==
    /\ tasks[t].cmd = "play" /\ tasks[t].pc = "resumed"
    /\ \E ok \in BOOLEAN :
        SetTask(t, [tasks[t] EXCEPT
                      !.resolved = Outcome(ok),
                      !.pc = IF ok THEN "reply_playing" ELSE "reply_error"])
    /\ UNCHANGED <<trackdata, storeLock, calls, callLock, playing, inserts,
                   starts>>

\* Where play goes on after a delivered reply: the Ok arm continues with the
\* session lookup, the Err arm is the end of the match.
PlayAfterReplyFallThrough(kind) == "get_call"

PlayAfterReply(kind) == IF kind = "playing" THEN "get_call" ELSE "end"

PlayReply(t) ==
    /\ tasks[t].cmd = "play"
    /\ tasks[t].pc \in {"reply_playing", "reply_error"}
    /\ LET kind == IF tasks[t].pc = "reply_playing" THEN "playing"
                   ELSE "error"
       IN  \E delivered \in BOOLEAN :
             SetTask(t, AfterSend(tasks[t], kind, PlayAfterReply(kind),
                                  delivered))
    /\ UNCHANGED <<trackdata, storeLock, calls, callLock, playing, inserts,
                   starts>>

\* The steps of the `if let Some(call_lock)` block, in program order; the
\* guards `store` and `call` are dropped at the end of the block, `store`
\* first.
CriticalOrderStoreFirst ==
    <<"lock_store", "lock_call", "play_source", "insert", "unlock">>

CriticalOrder ==
    <<"lock_call", "play_source", "lock_store", "insert", "unlock">>

NextInBlock(pc) ==
    LET i == CHOOSE k \in 1..Len(CriticalOrder) : CriticalOrder[k] = pc
    IN  IF i = Len(CriticalOrder) THEN "end" ELSE CriticalOrder[i + 1]

\* The task moved to the step after `pc` of the block; it returns Ok(())
\* after the last one.
Advance(task) ==
    LET next == NextInBlock(task.pc)
    IN  IF next = "end" THEN Ended(task, "ok") ELSE [task EXCEPT !.pc = next]

\* if let Some(call_lock) = state.songbird.get(guild_id): without a Call the
\* block is skipped and play returns Ok(()).
PlayAfterGetRequireCall(task, found) ==
    IF found THEN [task EXCEPT !.ops = Append(@, <<"get", "some">>),
                               !.pc = CriticalOrder[1]]
    ELSE Ended([task EXCEPT !.ops = Append(@, <<"get", "none">>)], "NoCall")

PlayAfterGet(task, found) ==
    IF found THEN [task EXCEPT !.ops = Append(@, <<"get", "some">>),
                               !.pc = CriticalOrder[1]]
    ELSE Ended([task EXCEPT !.ops = Append(@, <<"get", "none">>)], "ok")

PlayGetCall(t) ==
    /\ tasks[t].cmd = "play" /\ tasks[t].pc = "get_call"
    /\ SetTask(t, PlayAfterGet(tasks[t], tasks[t].guild \in calls))
    /\ UNCHANGED <<trackdata, storeLock, calls, callLock, playing, inserts,
                   starts>>

\* call_lock.lock().await
PlayLockCall(t) ==
    /\ tasks[t].cmd = "play" /\ tasks[t].pc = "lock_call"
    /\ callLock[tasks[t].guild] = Free
    /\ callLock' = [callLock EXCEPT ![tasks[t].guild] = t]
    /\ SetTask(t, Advance(tasks[t]))
    /\ UNCHANGED <<trackdata, storeLock, calls, playing, inserts, starts>>

PlaySourceReleasing(t) ==
    /\ tasks[t].cmd = "play" /\ tasks[t].pc = "play_source"
    /\ playing' = [playing EXCEPT ![tasks[t].guild] = @ \cup {t}]
    /\ starts' = Append(starts, t)
    /\ callLock' = [callLock EXCEPT ![tasks[t].guild] = Free]
    /\ SetTask(t, Advance([tasks[t] EXCEPT !.ops = Append(@, <<"play", "ok">>)]))
    /\ UNCHANGED <<trackdata, storeLock, calls, inserts>>

\* call.play_source(input): the track is added to the call; its handle is
\* identified by the task that created it.
PlaySource(t) ==
    /\ tasks[t].cmd = "play" /\ tasks[t].pc = "play_source"
    /\ playing' = [playing EXCEPT ![tasks[t].guild] = @ \cup {t}]
    /\ starts' = Append(starts, t)
    /\ SetTask(t, Advance([tasks[t] EXCEPT !.ops = Append(@, <<"play", "ok">>)]))
    /\ UNCHANGED <<trackdata, storeLock, calls, callLock, inserts>>

\* state.trackdata.write().await
PlayLockStore(t) ==
    /\ tasks[t].cmd = "play" /\ tasks[t].pc = "lock_store"
    /\ storeLock = Free
    /\ storeLock' = t
    /\ SetTask(t, Advance(tasks[t]))
    /\ UNCHANGED <<trackdata, calls, callLock, playing, inserts, starts>>

\* store.insert(guild_id, handle)
PlayInsert(t) ==
    /\ tasks[t].cmd = "play" /\ tasks[t].pc = "insert"
    /\ trackdata' = Insert(trackdata, tasks[t].guild, t)
    /\ inserts' = Append(inserts, t)
    /\ SetTask(t, Advance(tasks[t]))
    /\ UNCHANGED <<storeLock, calls, callLock, playing, starts>>

PlayUnlockKeepsCall(t) ==
    /\ tasks[t].cmd = "play" /\ tasks[t].pc = "unlock"
    /\ storeLock' = IF storeLock = t THEN Free ELSE storeLock
    /\ SetTask(t, Advance(tasks[t]))
    /\ UNCHANGED <<trackdata, calls, callLock, playing, inserts, starts>>

\* The end of the block: `store` is dropped, then `call`.
PlayUnlock(t) ==
    /\ tasks[t].cmd = "play" /\ tasks[t].pc = "unlock"
    /\ storeLock' = IF storeLock = t THEN Free ELSE storeLock
    /\ callLock' = [callLock EXCEPT ![tasks[t].guild] =
                       IF @ = t THEN Free ELSE @]
    /\ SetTask(t, Advance(tasks[t]))
    /\ UNCHANGED <<trackdata, calls, playing, inserts, starts>>

----------------------------------------------------------------------------
(* stop *)

\* if let Some(call_lock) = state.songbird.get(guild_id): without a Call the
\* block is skipped.
StopAfterGetRequireCall(task, found) ==
    IF found THEN [task EXCEPT !.ops = Append(@, <<"get", "some">>),
                               !.pc = "lock_call"]
    ELSE Ended([task EXCEPT !.ops = Append(@, <<"get", "none">>)], "NoCall")

StopAfterGet(task, found) ==
    IF found THEN [task EXCEPT !.ops = Append(@, <<"get", "some">>),
                               !.pc = "lock_call"]
    ELSE [task EXCEPT !.ops = Append(@, <<"get", "none">>), !.pc = "reply"]

StopGetCall(t) ==
    /\ tasks[t].cmd = "stop" /\ tasks[t].pc = "start"
    /\ SetTask(t, StopAfterGet(tasks[t], tasks[t].guild \in calls))
    /\ UNCHANGED <<trackdata, storeLock, calls, callLock, playing, inserts,
                   starts>>

\* call_lock.lock().await
StopLockCall(t) ==
    /\ tasks[t].cmd = "stop" /\ tasks[t].pc = "lock_call"
    /\ callLock[tasks[t].guild] = Free
    /\ callLock' = [callLock EXCEPT ![tasks[t].guild] = t]
    /\ SetTask(t, [tasks[t] EXCEPT !.pc = "call_stop"])
    /\ UNCHANGED <<trackdata, storeLock, calls, playing, inserts, starts>>

\* let _ = call.stop(); : the result is discarded.
StopAfterCallPropagate(task, ok) ==
    IF ok THEN [task EXCEPT !.ops = Append(@, <<"stop", "ok">>),
                            !.pc = "reply"]
    ELSE Ended([task EXCEPT !.ops = Append(@, <<"stop", "err">>)],
               "StopError")

StopAfterCall(task, ok) ==
    [task EXCEPT !.ops = Append(@, <<"stop", Outcome(ok)>>), !.pc = "reply"]

\* stop as it would be if it also removed the handle of the guild.
StopCallEvict(t) ==
    /\ tasks[t].cmd = "stop" /\ tasks[t].pc = "call_stop"
    /\ \E ok \in BOOLEAN :
        /\ SetTask(t, StopAfterCall(tasks[t], ok))
        /\ playing' = IF ok THEN [playing EXCEPT ![tasks[t].guild] = {}]
                      ELSE playing
    /\ callLock' = [callLock EXCEPT ![tasks[t].guild] = Free]
    /\ trackdata' = {e \in trackdata : e[1] # tasks[t].guild}
    /\ UNCHANGED <<storeLock, calls, inserts, starts>>

\* call.stop() and the drop of the guard at the end of the block: a stop
\* that succeeds ends every track of the call.
StopCall(t) ==
    /\ tasks[t].cmd = "stop" /\ tasks[t].pc = "call_stop"
    /\ \E ok \in BOOLEAN :
        /\ SetTask(t, StopAfterCall(tasks[t], ok))
        /\ playing' = IF ok THEN [playing EXCEPT ![tasks[t].guild] = {}]
                      ELSE playing
    /\ callLock' = [callLock EXCEPT ![tasks[t].guild] = Free]
    /\ UNCHANGED <<trackdata, storeLock, calls, inserts, starts>>

StopReply(t) ==
    /\ tasks[t].cmd = "stop" /\ tasks[t].pc = "reply"
    /\ \E delivered \in BOOLEAN :
        SetTask(t, AfterSend(tasks[t], "stopped", "end", delivered))
    /\ UNCHANGED <<trackdata, storeLock, calls, callLock, playing, inserts,
                   starts>>

----------------------------------------------------------------------------
(* Specification *)

Join(t) == JoinPrompt(t) \/ JoinParse(t) \/ JoinVoice(t) \/ JoinReply(t)

Leave(t) == LeaveCall(t) \/ LeaveReply(t)

Play(t) ==
    \/ PlayPrompt(t) \/ PlayResolve(t) \/ PlayReply(t) \/ PlayGetCall(t)
    \/ PlayLockCall(t) \/ PlaySource(t) \/ PlayLockStore(t) \/ PlayInsert(t)
    \/ PlayUnlock(t)

Stop(t) == StopGetCall(t) \/ StopLockCall(t) \/ StopCall(t) \/ StopReply(t)

TaskStep(t) == Join(t) \/ Leave(t) \/ Play(t) \/ Stop(t)

Next ==
    \/ \E ev \in Events : Dispatch(ev)
    \/ \E t \in TaskIds : TaskStep(t)

Spec == Init /\ [][Next]_vars

\* The executor polls every task that can make progress.
FairSpec ==
    Spec /\ \A t \in 1..MaxTasks : WF_vars(t \in TaskIds /\ TaskStep(t))

----------------------------------------------------------------------------
(* Properties *)

Range(seq) == {seq[i] : i \in 1..Len(seq)}

\* Position of x in a sequence without repetitions, 0 if absent.
Pos(seq, x) ==
    IF x \in Range(seq) THEN CHOOSE i \in 1..Len(seq) : seq[i] = x ELSE 0

\* The entries of the registry for guild g.
EntriesOf(g) == {e \in trackdata : e[1] = g}

\* The tasks that inserted a handle for guild g.
InsertersOf(g) == {t \in Range(inserts) : tasks[t].guild = g}

\* The task whose insert for guild g was the last one so far.
LastInserter(g) ==
    CHOOSE t \in InsertersOf(g) :
        \A u \in InsertersOf(g) : Pos(inserts, u) <= Pos(inserts, t)

\* C1: a guild never has more than one handle in the registry, and once a
\* play inserted for the guild the registry holds exactly the handle of the
\* most recent insert for it (an insert replaces the prior handle).
C1_OneHandlePerGuild ==
    \A g \in Guilds :
        /\ Cardinality(EntriesOf(g)) <= 1
        /\ InsertersOf(g) = {} => EntriesOf(g) = {}
        /\ InsertersOf(g) # {} => EntriesOf(g) = {<<g, LastInserter(g)>>}

\* C1 case: a second play inserted for guild 1 and replaced the handle of
\* the first.
C1_Witness ==
    /\ Cardinality(InsertersOf(1)) = 2
    /\ EntriesOf(1) = {<<1, LastInserter(1)>>}
    /\ tasks[LastInserter(1)].result = "ok"

\* C2: of two play tasks of the same guild that both inserted, the handle of
\* the one whose insert came first is gone from the registry, and unless a
\* third insert followed the registry holds exactly the handle of the one
\* whose insert came later, whichever of the two was spawned first.
C2_LaterInsertWins ==
    \A t1 \in Range(inserts), t2 \in Range(inserts) :
        (/\ tasks[t1].guild = tasks[t2].guild
         /\ Pos(inserts, t1) < Pos(inserts, t2))
        => /\ <<tasks[t1].guild, t1>> \notin trackdata
           /\ LastInserter(tasks[t2].guild) = t2
                => EntriesOf(tasks[t2].guild) = {<<tasks[t2].guild, t2>>}

\* C2 case: two plays of guild 1 were both in flight, the one spawned later
\* inserted first, and the registry holds the handle of the one spawned
\* first, whose insert completed later.
C2_Witness ==
    /\ Len(inserts) = 2
    /\ inserts[1] > inserts[2]
    /\ tasks[inserts[1]].guild = 1 /\ tasks[inserts[2]].guild = 1
    /\ trackdata = {<<1, inserts[2]>>}
    /\ tasks[inserts[2]].pc = "end"

PlayTasks == {t \in TaskIds : tasks[t].cmd = "play"}

JoinTasks == {t \in TaskIds : tasks[t].cmd = "join"}

LeaveTasks == {t \in TaskIds : tasks[t].cmd = "leave"}

StopTasks == {t \in TaskIds : tasks[t].cmd = "stop"}

\* The songbird operations a task issued, without their outcomes.
OpNames(task) == {task.ops[i][1] : i \in 1..Len(task.ops)}

\* The task neither started a track nor wrote to the registry.
NoPlayback(t) ==
    /\ t \notin Range(inserts)
    /\ t \notin Range(starts)
    /\ \A e \in trackdata : e[2] # t
    /\ OpNames(tasks[t]) = {}

\* C3 as stated: a play whose text failed to resolve has, once it ended,
\* sent the reply with the failure cause, and never started playback nor
\* wrote to the registry.
C3_Original ==
    \A t \in PlayTasks :
        (tasks[t].resolved = "err" /\ tasks[t].pc = "end")
        => /\ tasks[t].replies = <<"prompt_play", "error">>
           /\ NoPlayback(t)

\* C3 amended: a play whose text failed to resolve never starts playback and
\* never writes to the registry; its only step left is the send of the reply
\* with the failure cause, and it ends either with that reply delivered
\* (Ok) or, when the send fails, with a TransportError and no reply after
\* the prompt.
C3_ResolveFailure ==
    \A t \in PlayTasks :
        tasks[t].resolved = "err"
        => /\ NoPlayback(t)
           /\ tasks[t].pc \in {"reply_error", "end"}
           /\ tasks[t].pc = "reply_error"
                => tasks[t].replies = <<"prompt_play">>
           /\ tasks[t].pc = "end"
                => \/ /\ tasks[t].result = "ok"
                      /\ tasks[t].replies = <<"prompt_play", "error">>
                   \/ /\ tasks[t].result = "TransportError"
                      /\ tasks[t].replies = <<"prompt_play">>

\* C3 case: with a voice session present in the guild, a play whose text
\* failed to resolve ended after its error reply was delivered.
C3_Witness ==
    \E t \in PlayTasks :
        /\ tasks[t].resolved = "err"
        /\ tasks[t].pc = "end" /\ tasks[t].result = "ok"
        /\ tasks[t].replies = <<"prompt_play", "error">>
        /\ tasks[t].guild \in calls

\* No track was ever started in the guild of task t.
NoPriorPlay(t) == \A u \in Range(starts) : tasks[u].guild # tasks[t].guild

\* C4 as stated: a stop in a guild without a prior play ends as a success
\* with the "Stopped the track" reply.
C4_Original ==
    \A t \in StopTasks :
        (NoPriorPlay(t) /\ tasks[t].pc = "end")
        => /\ tasks[t].result = "ok"
           /\ tasks[t].replies = <<"stopped">>

\* C4 amended: a stop always reaches the send of the "Stopped the track"
\* reply, with or without a session and whatever call.stop() returned; it
\* ends as a success with that reply delivered, and fails only when that
\* send fails (TransportError, no reply).
C4_StopAlwaysReplies ==
    \A t \in StopTasks :
        /\ tasks[t].pc \in {"start", "lock_call", "call_stop", "reply", "end"}
        /\ tasks[t].pc = "end"
             => \/ /\ tasks[t].result = "ok"
                   /\ tasks[t].replies = <<"stopped">>
                \/ /\ tasks[t].result = "TransportError"
                   /\ tasks[t].replies = <<>>
        /\ tasks[t].pc # "end"
             => tasks[t].result = "running" /\ tasks[t].replies = <<>>
        /\ (tasks[t].pc \in {"reply", "end"})
             => LastOp(tasks[t]) \in
                  {<<"get", "none">>, <<"stop", "ok">>, <<"stop", "err">>}

\* C4 case: no track was ever started, one stop found no session and another
\* found one and had its call.stop() fail, and both ended as a success with
\* the reply delivered.
C4_Witness ==
    /\ starts = <<>>
    /\ \E t \in StopTasks, u \in StopTasks :
        /\ tasks[t].ops = <<<<"get", "none">>>>
        /\ tasks[u].ops = <<<<"get", "some">>, <<"stop", "err">>>>
        /\ tasks[t].result = "ok" /\ tasks[t].replies = <<"stopped">>
        /\ tasks[u].result = "ok" /\ tasks[u].replies = <<"stopped">>

\* The texts of the model that denote an unsigned integer.
NumericTexts == {TNumber}

\* C5: a join that is handed a follow-up text that is no unsigned integer
\* ends at its next step as a failure (the parse error), without a call of
\* songbird.join, without a reply after the prompt and without a change of
\* the registry, of the calls or of the tracks; and a task that ended takes
\* no further step.
C5_NonNumericJoin ==
    [][\A t \in TaskIds :
        /\ (/\ tasks[t].cmd = "join"
            /\ tasks[t].pc = "resumed"
            /\ tasks[t].followup \notin NumericTexts
            /\ tasks'[t] # tasks[t])
           => /\ tasks'[t].pc = "end"
              /\ tasks'[t].result = "ParseError"
              /\ tasks'[t].ops = <<>>
              /\ tasks'[t].replies = <<"prompt_join">>
              /\ UNCHANGED <<trackdata, calls, playing, inserts, starts>>
        /\ tasks[t].pc = "end" => tasks'[t] = tasks[t]]_vars

\* C5 case: a join ended with the parse error while another join of the same
\* guild, answered with a number, went on to songbird.join.
C5_Witness ==
    \E t \in JoinTasks, u \in JoinTasks :
        /\ tasks[t].pc = "end" /\ tasks[t].result = "ParseError"
        /\ tasks[t].replies = <<"prompt_join">> /\ tasks[t].ops = <<>>
        /\ "join" \in OpNames(tasks[u])
        /\ trackdata = {}

\* C6: a leave whose songbird.leave failed ended with the LeaveError and
\* without any reply; a leave in a guild without a Call cannot get past
\* songbird.leave; and "Left the channel" is sent only after songbird.leave
\* succeeded.
C6_LeaveWithoutSession ==
    \A t \in LeaveTasks :
        /\ (tasks[t].pc # "start" /\ tasks[t].guild \notin calls)
             => tasks[t].ops = <<<<"leave", "err">>>>
        /\ tasks[t].ops = <<<<"leave", "err">>>>
             => /\ tasks[t].pc = "end"
                /\ tasks[t].result = "LeaveError"
                /\ tasks[t].replies = <<>>
        /\ tasks[t].replies # <<>>
             => /\ tasks[t].replies = <<"left">>
                /\ tasks[t].ops = <<<<"leave", "ok">>>>
                /\ tasks[t].guild \in calls

\* C6 case: a leave in a guild without a Call ended with the LeaveError and
\* no reply.
C6_Witness ==
    \E t \in LeaveTasks :
        /\ tasks[t].guild \notin calls
        /\ tasks[t].pc = "end" /\ tasks[t].result = "LeaveError"
        /\ tasks[t].replies = <<>>

\* C7 as stated: every leave and every stop that ended without a transport
\* error sent its success reply.
C7_Original ==
    \A t \in LeaveTasks \cup StopTasks :
        (tasks[t].pc = "end" /\ tasks[t].result # "TransportError")
        => tasks[t].replies =
             <<IF tasks[t].cmd = "leave" THEN "left" ELSE "stopped">>

\* C7 amended: only the stop path reports success unconditionally.  A stop
\* that ended without a transport error sent "Stopped the track", also when
\* call.stop() failed or was skipped; a leave that ended without a transport
\* error sent "Left the channel" exactly when songbird.leave succeeded, and
\* a LeaveError ends it without a reply.
C7_OnlyStopUnconditional ==
    \A t \in LeaveTasks \cup StopTasks :
        (tasks[t].pc = "end" /\ tasks[t].result # "TransportError")
        => IF tasks[t].cmd = "stop"
           THEN tasks[t].result = "ok" /\ tasks[t].replies = <<"stopped">>
           ELSE IF LastOp(tasks[t]) = <<"leave", "ok">>
           THEN tasks[t].result = "ok" /\ tasks[t].replies = <<"left">>
           ELSE tasks[t].result = "LeaveError" /\ tasks[t].replies = <<>>

\* C7 case: in a guild with a Call a stop whose call.stop() failed replied
\* "Stopped the track", and a leave whose songbird.leave failed ended
\* without a reply.
C7_Witness ==
    \E t \in StopTasks, u \in LeaveTasks :
        /\ tasks[t].guild = tasks[u].guild /\ tasks[t].guild \in calls
        /\ tasks[t].ops = <<<<"get", "some">>, <<"stop", "err">>>>
        /\ tasks[t].result = "ok" /\ tasks[t].replies = <<"stopped">>
        /\ tasks[u].result = "LeaveError" /\ tasks[u].replies = <<>>

\* The command tokens and the handler each selects.
RecognizedTokens == {TJoin, TPlay, TLeave, TStop}

HandlerOf(tok) ==
    CASE tok = TJoin -> "join"
      [] tok = TPlay -> "play"
      [] tok = TLeave -> "leave"
      [] tok = TStop -> "stop"

\* The event is a message of a guild that begins with "j/" and whose leading
\* token is exactly a command token.
ShouldSpawn(ev) ==
    /\ ev.type = "MessageCreate"
    /\ ChannelGuild(ev.channel) # NoGuild
    /\ StartsWith(ev.content, Prefix)
    /\ FirstToken(ev.content) \in RecognizedTokens

\* The iteration of the consumer loop for ev spawned the handler of ev's
\* token, and tasks are spawned by no other step.
SpawnsExactlyFor(ev) ==
    ShouldSpawn(ev)
    => /\ Len(tasks') = Len(tasks) + 1
       /\ tasks'[Len(tasks')] = NewTask(HandlerOf(FirstToken(ev.content)), ev)

OnlyDispatchSpawns ==
    Len(tasks') # Len(tasks)
    => \E ev \in Events : Dispatch(ev) /\ ShouldSpawn(ev)

C9_DispatchNeverWaits ==
    /\ [](\A ev \in Events :
            (~ShouldSpawn(ev) \/ Len(tasks) < MaxTasks) => ENABLED Dispatch(ev))
    /\ \A t \in 1..MaxTasks :
         (t \in TaskIds /\ tasks[t].cmd \in {"leave", "stop"})
            ~> (t \in TaskIds /\ tasks[t].pc = "end")

\* C9 case: a join of guild 1 and a play of guild 1 are both waiting for
\* their follow-up, and the stop of guild 2 that was issued after them ended
\* with its reply delivered.
C9_Witness ==
    /\ Len(tasks) = 3
    /\ tasks[1].pc = "wait" /\ tasks[2].pc = "wait"
    /\ {tasks[1].cmd, tasks[2].cmd} = {"join", "play"}
    /\ tasks[3].cmd = "stop" /\ tasks[3].guild = 2
    /\ tasks[3].pc = "end" /\ tasks[3].replies = <<"stopped">>

\* C10: the task that holds the write lock of trackdata is a play that is
\* at its insert or at the drop of its guards, the two steps without an
\* await: no task holds the lock while it sends a reply, waits for a
\* follow-up, calls songbird or the fetcher, or waits for a lock.
C10_RegistryLockScope ==
    /\ storeLock \in TaskIds \cup {Free}
    /\ \A t \in TaskIds :
        storeLock = t
        => /\ tasks[t].cmd = "play"
           /\ tasks[t].pc \in {"insert", "unlock"}
           /\ tasks[t].pc = "insert" <=> t \notin Range(inserts)

\* C10 case: a play holds the registry lock right after its insert while
\* another play of the guild waits for the session lock.
C10_Witness ==
    \E t \in TaskIds, u \in TaskIds :
        /\ storeLock = t /\ tasks[t].pc = "unlock"
        /\ tasks[u].pc = "lock_call" /\ tasks[u].guild = tasks[t].guild


\* C11: a step that changes the registry is the insert of a play task that
\* resolved its source and found and started a track on a voice session; it
\* changes the entry of that task's guild only, to the handle of the task;
\* and no step leaves a guild that had an entry without one.
C11_OnlyPlayInsertWrites ==
    [][/\ trackdata' # trackdata
          => \E t \in TaskIds :
               /\ tasks[t].cmd = "play" /\ tasks[t].pc = "insert"
               /\ tasks[t].resolved = "ok"
               /\ tasks[t].ops = <<<<"get", "some">>, <<"play", "ok">>>>
               /\ tasks'[t].pc # "insert"
               /\ <<tasks[t].guild, t>> \in trackdata'
               /\ \A e \in (trackdata \ trackdata') \cup (trackdata' \ trackdata) :
                    e[1] = tasks[t].guild
       /\ \A g \in Guilds :
            (\E e \in trackdata : e[1] = g) => (\E e \in trackdata' : e[1] = g)
      ]_vars

\* C11 case: a stop of guild 1 ended every track of the session after a play
\* had inserted its handle, and the handle is still in the registry.
C11_Witness ==
    \E t \in StopTasks, u \in PlayTasks :
        /\ tasks[t].guild = 1 /\ tasks[u].guild = 1
        /\ tasks[t].ops = <<<<"get", "some">>, <<"stop", "ok">>>>
        /\ tasks[t].pc = "end"
        /\ playing[1] = {}
        /\ u \in Range(starts)
        /\ trackdata = {<<1, u>>}


\* C12 as stated: a play whose source resolved, in a guild that has no voice
\* session, ended as a success with the "Playing" reply sent, without
\* playback and without a write to the registry.
C12_Original ==
    \A t \in PlayTasks :
        (/\ tasks[t].resolved = "ok"
         /\ tasks[t].guild \notin calls
         /\ tasks[t].pc = "end")
        => /\ tasks[t].result = "ok"
           /\ tasks[t].replies = <<"prompt_play", "playing">>
           /\ t \notin Range(starts) /\ t \notin Range(inserts)

\* C12 amended: a play whose source resolved looks the session up only after
\* its "Playing" reply was delivered.  In a guild without a voice session it
\* ends either as a success, with that reply sent, the lookup answered None,
\* no playback and no write to the registry, or, when the send of the
\* "Playing" reply fails, with the TransportError before the lookup.
C12_PlayWithoutSession ==
    \A t \in PlayTasks :
        tasks[t].resolved = "ok"
        => /\ (tasks[t].ops # <<>> \/ tasks[t].pc = "get_call")
                => tasks[t].replies = <<"prompt_play", "playing">>
           /\ tasks[t].ops = <<<<"get", "none">>>>
                => /\ tasks[t].pc = "end" /\ tasks[t].result = "ok"
                   /\ t \notin Range(starts) /\ t \notin Range(inserts)
                   /\ \A e \in trackdata : e[2] # t
           /\ (tasks[t].guild \notin calls /\ tasks[t].pc = "end")
                => \/ /\ tasks[t].result = "ok"
                      /\ tasks[t].ops = <<<<"get", "none">>>>
                   \/ /\ tasks[t].result = "TransportError"
                      /\ tasks[t].replies = <<"prompt_play">>
                      /\ tasks[t].ops = <<>>

\* C12 case: in guild 1, which has no voice session, a play resolved its
\* source, sent "Playing" and ended as a success with nothing played and an
\* empty registry.
C12_Witness ==
    \E t \in PlayTasks :
        /\ tasks[t].guild \notin calls
        /\ tasks[t].resolved = "ok"
        /\ tasks[t].replies = <<"prompt_play", "playing">>
        /\ tasks[t].ops = <<<<"get", "none">>>>
        /\ tasks[t].pc = "end" /\ tasks[t].result = "ok"
        /\ starts = <<>> /\ trackdata = {}


\* A join that got past the parse of its follow-up, i.e. was handed a number.
PastParse(t) ==
    /\ tasks[t].cmd = "join"
    /\ \/ tasks[t].pc \in {"voice_join", "reply"}
       \/ tasks[t].pc = "end" /\ tasks[t].ops # <<>>

\* C13 as stated: a join that was handed a number and ended called
\* songbird.join once and sent exactly one outcome reply, "Joined" after a
\* successful join and "Failed to join" after a failed one.
C13_Original ==
    \A t \in JoinTasks :
        (PastParse(t) /\ tasks[t].pc = "end")
        => /\ Len(tasks[t].ops) = 1 /\ tasks[t].ops[1][1] = "join"
           /\ tasks[t].replies =
                <<"prompt_join", IF tasks[t].ops[1][2] = "ok" THEN "joined"
                                 ELSE "join_failed">>

\* C13 amended: a join that was handed a number calls songbird.join exactly
\* once and then attempts one outcome reply: "Joined" after a successful
\* join, "Failed to join" after a failed one, never both and never "Joined"
\* after a failure.  It ends as a success with that one reply sent, or, when
\* the send fails, with the TransportError and no outcome reply.
C13_JoinOutcomeReply ==
    \A t \in JoinTasks :
        /\ tasks[t].pc = "voice_join"
             => tasks[t].ops = <<>> /\ tasks[t].replies = <<"prompt_join">>
        /\ tasks[t].pc = "reply"
             => /\ tasks[t].ops \in {<<<<"join", "ok">>>>, <<<<"join", "err">>>>}
                /\ tasks[t].replies = <<"prompt_join">>
        /\ (PastParse(t) /\ tasks[t].pc = "end")
             => /\ tasks[t].ops \in {<<<<"join", "ok">>>>, <<<<"join", "err">>>>}
                /\ \/ /\ tasks[t].result = "ok"
                      /\ tasks[t].replies =
                           <<"prompt_join",
                             IF tasks[t].ops = <<<<"join", "ok">>>> THEN "joined"
                             ELSE "join_failed">>
                   \/ /\ tasks[t].result = "TransportError"
                      /\ tasks[t].replies = <<"prompt_join">>
        /\ ~PastParse(t)
             => /\ tasks[t].ops = <<>>
                /\ \A i \in 1..Len(tasks[t].replies) :
                     tasks[t].replies[i] = "prompt_join"

\* C13 case: of two joins that were handed a number, one joined and sent
\* "Joined", the other failed to join and sent "Failed to join".
C13_Witness ==
    \E t \in JoinTasks, u \in JoinTasks :
        /\ tasks[t].ops = <<<<"join", "ok">>>>
        /\ tasks[t].replies = <<"prompt_join", "joined">>
        /\ tasks[u].ops = <<<<"join", "err">>>>
        /\ tasks[u].replies = <<"prompt_join", "join_failed">>
        /\ tasks[t].result = "ok" /\ tasks[u].result = "ok"


\* The event is a message of the author of task t in the channel of task t.
FromAuthorInChannel(ev, t) ==
    /\ ev.type = "MessageCreate"
    /\ ev.author = tasks[t].author
    /\ ev.channel = tasks[t].channel

\* C14: a join or play that waits for its follow-up leaves the wait only in
\* an iteration of the consumer loop for a message of its author in its
\* channel; an iteration for any other event (another author, another
\* channel, no message) leaves the task as it is, suspended.
C14_ResumedOnlyByAuthorInChannel ==
    [][\A t \in TaskIds :
        tasks[t].pc = "wait"
        => /\ tasks[t].cmd \in {"join", "play"}
           /\ tasks'[t] # tasks[t]
                => /\ tasks'[t].pc = "resumed"
                   /\ \E ev \in Events : Dispatch(ev) /\ FromAuthorInChannel(ev, t)
           /\ \A ev \in Events :
                Dispatch(ev)
                => IF FromAuthorInChannel(ev, t)
                   THEN tasks'[t].pc = "resumed"
                   ELSE tasks'[t] = tasks[t]]_vars

\* C14 case: a join of author 1 in channel 1 was resumed with a number, a
\* stop was spawned for a message of author 1 in channel 2, and a play of
\* author 1 in channel 1 is suspended.
C14_Witness ==
    /\ Len(tasks) = 3
    /\ \E t \in JoinTasks, u \in StopTasks, w \in PlayTasks :
        /\ tasks[t].pc = "resumed" /\ tasks[t].followup = TNumber
        /\ tasks[t].channel = 1 /\ tasks[t].author = 1
        /\ tasks[u].channel = 2 /\ tasks[u].author = 1
        /\ tasks[w].pc = "wait" /\ tasks[w].channel = 1


\* The steps at which a task sends a reply.
SendPcs(cmd) ==
    CASE cmd = "join" -> {"start", "reply"}
      [] cmd = "play" -> {"start", "reply_playing", "reply_error"}
      [] cmd = "leave" -> {"reply"}
      [] cmd = "stop" -> {"reply"}

\* C15: a send that fails ends the task at that step: the step changes
\* nothing but the task's position and result, and the task never takes
\* another step (no retry, and standby never resumes it).  So a join or play
\* whose prompt failed never waited, never resolved and never called
\* songbird, and a play whose "Playing" send failed neither started a track
\* nor wrote to the registry.
C15_FailedSendAborts ==
    [][\A t \in TaskIds :
        /\ tasks[t].result = "TransportError" => tasks'[t] = tasks[t]
        /\ (tasks'[t].result = "TransportError" /\ tasks[t].result = "running")
             => /\ tasks[t].pc \in SendPcs(tasks[t].cmd)
                /\ tasks'[t] = Ended(tasks[t], "TransportError")
                /\ UNCHANGED <<trackdata, storeLock, calls, callLock, playing,
                               inserts, starts>>
        /\ tasks'[t].result = "TransportError"
             => /\ tasks'[t].pc = "end"
                /\ tasks'[t].followup = <<>>
                /\ (tasks'[t].cmd \in {"join", "play"} /\ tasks'[t].replies = <<>>)
                     => /\ tasks[t].pc \in {"start", "end"}
                        /\ tasks'[t].resolved = "none"
                        /\ tasks'[t].ops = <<>>
                /\ tasks'[t].cmd = "play"
                     => /\ tasks'[t].ops = <<>>
                        /\ t \notin Range(starts') /\ t \notin Range(inserts')
                        /\ \A e \in trackdata' : e[2] # t]_vars

\* C15 case: with a voice session in the guild, one play ended with the
\* TransportError of its prompt and another with the TransportError of its
\* "Playing" reply, and no track was started and the registry is empty.
C15_Witness ==
    \E t \in PlayTasks, u \in PlayTasks :
        /\ tasks[t].guild \in calls
        /\ tasks[t].result = "TransportError" /\ tasks[t].replies = <<>>
        /\ tasks[u].result = "TransportError"
        /\ tasks[u].replies = <<"prompt_play">> /\ tasks[u].resolved = "ok"
        /\ starts = <<>> /\ trackdata = {}


\* The tasks of a history (starts or inserts) that belong to guild g, in the
\* order of the history.
OfGuild(seq, g) == SelectSeq(seq, LAMBDA t : tasks[t].guild = g)

IsPrefix(s, r) == Len(s) <= Len(r) /\ \A i \in 1..Len(s) : s[i] = r[i]

\* C16: a play starts its track and inserts the handle under the session
\* lock of its guild.  So the inserts for a guild follow the order of the
\* playback starts on it, a started track that is not yet inserted belongs to
\* the task holding the session lock, and whenever no play holds the lock the
\* registry's handle for the guild is the one of the track started last.
C16_InsertOrderIsStartOrder ==
    \A g \in Guilds :
        /\ IsPrefix(OfGuild(inserts, g), OfGuild(starts, g))
        /\ \A t \in Range(OfGuild(starts, g)) :
               (t \in Range(inserts) \/ callLock[g] = t)
               /\ (callLock[g] = t => tasks[t].cmd = "play")
        /\ callLock[g] \notin PlayTasks
             => EntriesOf(g) =
                    IF OfGuild(starts, g) = <<>> THEN {}
                    ELSE {<<g, OfGuild(starts, g)[Len(OfGuild(starts, g))]>>}

\* C16 case: two plays started a track on the same session one after the
\* other, both left the block, and the registry holds the handle of the
\* second.
C16_Witness ==
    \E g \in Guilds :
        /\ Len(OfGuild(starts, g)) = 2
        /\ callLock[g] = Free
        /\ inserts = starts
        /\ trackdata = {<<g, starts[2]>>}
        /\ \A t \in Range(starts) : tasks[t].pc = "end"


\* The tasks that hold the session lock of a guild or the registry lock.
LockHolders == {t \in TaskIds : storeLock = t \/ \E g \in Guilds : callLock[g] = t}

\* The steps of a task inside the block of a session guard: none of them
\* sends, resolves, calls the voice gateway or waits for a follow-up.
GuardedPcs(cmd) ==
    CASE cmd = "play" -> {"play_source", "lock_store", "insert", "unlock"}
      [] cmd = "stop" -> {"call_stop"}
      [] OTHER -> {}

LockDiscipline ==
    /\ storeLock # Free
         => /\ storeLock \in PlayTasks
            /\ callLock[tasks[storeLock].guild] = storeLock
    /\ \A t \in TaskIds :
         /\ tasks[t].pc = "lock_call" => t \notin LockHolders
         /\ tasks[t].pc = "lock_store" => callLock[tasks[t].guild] = t
         /\ t \in LockHolders => tasks[t].pc \in GuardedPcs(tasks[t].cmd)

\* C17: the registry lock is only taken by a task that already holds the
\* session lock of its guild, a task that requests the session lock holds no
\* lock, and a lock holder is never at a send, a resolve, a voice join or
\* leave, or a wait for a follow-up; and under fair scheduling every task
\* that requests the session lock or the registry lock comes to hold it.
C17_NoLockDeadlock ==
    /\ []LockDiscipline
    /\ \A t \in 1..MaxTasks :
         /\ (t \in TaskIds /\ tasks[t].pc = "lock_call")
               ~> (t \in TaskIds /\ callLock[tasks[t].guild] = t)
         /\ (t \in TaskIds /\ tasks[t].pc = "lock_store")
               ~> (t \in TaskIds /\ storeLock = t)

\* C17 case: a stop and a play of the same guild contend for the session
\* lock: the stop requests it while the play, holding it, is about to request
\* the registry lock.
C17_Witness ==
    \E t \in PlayTasks, u \in StopTasks :
        /\ tasks[u].guild = tasks[t].guild
        /\ tasks[u].pc = "lock_call"
        /\ tasks[t].pc = "lock_store" /\ callLock[tasks[t].guild] = t


\* The prompt of a join or play task.
PromptOf(cmd) == IF cmd = "join" THEN "prompt_join" ELSE "prompt_play"

\* C18: a join or play is handed a follow-up only by an iteration of the
\* consumer loop that finds it waiting, and it waits only once its prompt was
\* delivered.  The iteration that spawns a task leaves it at its first step
\* with no follow-up (the trigger is not delivered to it), and an iteration
\* for any message while the task is still sending its prompt leaves the task
\* untouched.
C18_FollowupAfterWaitRegistered ==
    [][/\ \A t \in TaskIds :
            /\ tasks[t].pc = "start"
                 => \A ev \in Events : Dispatch(ev) => tasks'[t] = tasks[t]
            /\ (tasks'[t].pc = "resumed" /\ tasks[t].pc # "resumed")
                 => /\ tasks[t].pc = "wait"
                    /\ tasks[t].replies = <<PromptOf(tasks[t].cmd)>>
                    /\ \E ev \in Events :
                         Dispatch(ev) /\ FromAuthorInChannel(ev, t)
            /\ (tasks'[t].pc = "wait" /\ tasks[t].pc # "wait")
                 => /\ tasks[t].pc = "start"
                    /\ tasks[t].cmd \in {"join", "play"}
                    /\ tasks'[t].replies = <<PromptOf(tasks[t].cmd)>>
                    /\ \A ev \in Events : ~Dispatch(ev)
            /\ tasks'[t].followup # tasks[t].followup
                 => tasks[t].pc \in {"wait", "resumed"}
       /\ \A ev \in Events :
            (Dispatch(ev) /\ Len(tasks') > Len(tasks))
            => tasks'[Len(tasks')] = NewTask(Classify(ev), ev)
       /\ \A t \in DOMAIN tasks' \ TaskIds :
            tasks'[t].pc = "start" /\ tasks'[t].followup = <<>>
      ]_vars

\* C18 case: a join or play waits for its follow-up although a later command
\* of the same author in the same channel was spawned: that message was
\* processed while the prompt was being sent, and was not delivered.
C18_Witness ==
    \E t \in TaskIds, u \in TaskIds :
        /\ t < u
        /\ tasks[t].cmd \in {"join", "play"} /\ tasks[t].pc = "wait"
        /\ tasks[u].channel = tasks[t].channel
        /\ tasks[u].author = tasks[t].author


\* The tasks that wait for a follow-up that ev is.
WaitingFor(ev) ==
    {t \in TaskIds : tasks[t].pc = "wait" /\ FromAuthorInChannel(ev, t)}

\* C19: the iteration of the consumer loop for a command message that is
\* also the follow-up some join or play waits for does both: it resumes every
\* such task with the message and it spawns the handler of the message's
\* token, and it changes no other task.
C19_FollowupAlsoSpawns ==
    [][\A ev \in Events :
        (Dispatch(ev) /\ ShouldSpawn(ev) /\ WaitingFor(ev) # {})
        => /\ Len(tasks') = Len(tasks) + 1
           /\ tasks'[Len(tasks')]
                = NewTask(HandlerOf(FirstToken(ev.content)), ev)
           /\ \A t \in TaskIds :
                IF t \in WaitingFor(ev)
                THEN /\ tasks'[t].pc = "resumed"
                     /\ tasks[t].cmd = "join" => tasks'[t].followup = ev.content
                ELSE tasks'[t] = tasks[t]]_vars

\* C19 case: the play prompt was answered with "j/stop": the play was resumed
\* and went on to resolve the text, and a stop task was spawned by the same
\* message.
C19_Witness ==
    /\ Len(tasks) = 2
    /\ tasks[1].cmd = "play" /\ tasks[1].replies = <<"prompt_play">>
    /\ tasks[1].resolved # "none"
    /\ tasks[2] = NewTask("stop", Message(tasks[1].channel, tasks[1].author, TStop))

====
